---- MODULE Spec2Model ----
(***************************************************************************)
(* State-machine model of server/signaling-server.js: the in-memory room   *)
(* registry (rooms), the user -> socket bindings (userSockets), the        *)
(* Socket.IO connections with the fields the handlers store on them, and   *)
(* the event handlers.                                                     *)
(*                                                                         *)
(* The join-room handler is an async function with one suspension point,   *)
(* `await socket.join(roomId)`.  JoinRoom is the handler up to the await   *)
(* (lines 53-70) and JoinResume its continuation (lines 72-105); between   *)
(* the two any other handler may run.  JoinRoomNow is the same handler     *)
(* when the continuation runs before any other handler does.  Every other  *)
(* handler is synchronous and is one action.                               *)
(*                                                                         *)
(* Left out, because no handler ever reads them back: room.type,           *)
(* room.isActive, socket.userName, socket.userAvatar, message timestamps.  *)
(* Time is kept per room as its age, now - createdAt, which is all the     *)
(* reaper compares; an age past the retention window stays there.          *)
(***************************************************************************)
EXTENDS Integers, FiniteSets, TLC

\* ---------------------------------------------------------------- bounds
\* Join handlers that may be suspended at their await at the same time.
MaxPending == 1

\* Every userId, socket id and room id the model knows.
UserIds == {"u1", "u2", "u3", "u4", "u5"}
SocketIds == {"s1", "s2", "s3"}
RoomIds == {"r1", "r2"}
SocketRank == [s \in SocketIds |-> CASE s = "s1" -> 1 [] s = "s2" -> 2 [] OTHER -> 3]

\* The events of Spec: the connection lifecycle in one room.
LifeUsers == {"u1", "u2"}
LifeSockets == {"s1", "s2"}
LifeRooms == {"r1"}

\* The events of SpecCap: enough userIds to fill a room and one more, each
\* connection joining under userIds of its own.
CapSockets == {"s1", "s2"}
CapRooms == {"r1"}
CapJoins == {<<"s1", "u1">>, <<"s1", "u2">>, <<"s1", "u3">>, <<"s2", "u4">>, <<"s2", "u5">>}

\* The events of SpecReaper: two rooms growing old, one connection.
ReaperUsers == {"u1"}
ReaperSockets == {"s1"}
ReaperRooms == {"r1", "r2"}

\* The events of SpecShared: three connections joining under one userId.
SharedUsers == {"u1"}
SharedSockets == {"s1", "s2", "s3"}
SharedRooms == {"r1"}

\* The events of SpecRelay.
RelayUsers == {"u1", "u2"}
RelaySockets == {"s1", "s2"}
RelayRooms == {"r1"}
Payloads == {"sdpA", "sdpB"}
RelayEvents == {"offer", "answer", "ice-candidate"}

\* The events of SpecSignal: two connections moving between two rooms and
\* sending every kind of message.
SignalUsers == {"u1"}
SignalSockets == {"s1", "s2"}
SignalRooms == {"r1", "r2"}
SignalPayloads == {"sdpA"}
VideoFlags == {"on", "off"}

\* ------------------------------------------------------ program constants
\* `room.participants.size >= 4`
MaxParticipants == 4
\* `60 * 60 * 1000` ms, the retention window, in units of the model's clock.
Retention == 1

\* JavaScript's undefined / a missing Map entry.
None == "none"
\* Room objects live on the heap; 0 is "no object".
Objs == 1..(Cardinality(RoomIds) + MaxPending)
Free == [creator |-> None, participants |-> {}, age |-> 0, alloc |-> FALSE]

VARIABLES
  rooms,        \* the Map rooms: roomId -> room object (0: no entry)
  heap,         \* the room objects: creator, participants, age
  userSockets,  \* the Map userSockets: userId -> socket.id (None: no entry)
  sockets,      \* per connection: status, userId, roomId, Socket.IO rooms
  pending,      \* join-room handlers suspended at `await socket.join`
  last          \* the handler that ran last and the messages it delivered

vars == <<rooms, heap, userSockets, sockets, pending, last>>

\* ------------------------------------------------------------- messages
Msg(to, ev, roomId, userId, count, parts, flag, payload) ==
  [to |-> to, ev |-> ev, roomId |-> roomId, userId |-> userId, count |-> count,
   parts |-> parts, flag |-> flag, payload |-> payload]

\* socket.emit(...): to the socket itself; a closed socket drops the packet.
SocketEmit(sk, s) == IF sk[s].status = "open" THEN {s} ELSE {}

\* socket.to(room).emit(...): every connected socket in the Socket.IO room
\* except the sender.  A room name of undefined matches no room.
SocketTo(sk, s, room) ==
  {t \in DOMAIN sk : t # s /\ sk[t].status = "open" /\ room \in sk[t].sio}

\* io.to(room).emit(...) for a roomId: every connected socket in the room.
IoToRoom(sk, room) ==
  {t \in DOMAIN sk : sk[t].status = "open" /\ room \in sk[t].sio}

\* io.to(socketId).emit(...): each socket is alone in the room named by its id.
IoToSocket(sk, sid) ==
  {t \in DOMAIN sk : t = sid /\ sk[t].status = "open"}

Open(s) == sockets[s].status = "open"

\* What `last` records of a handler: the event, the socket it ran on, the room
\* it named, for a relay its target and payload, and the messages delivered.
Done(op, s, roomId, out) ==
  [op |-> op, sock |-> s, roomId |-> roomId, target |-> None, payload |-> None, out |-> out]

Relayed(op, s, target, payload, out) ==
  [op |-> op, sock |-> s, roomId |-> None, target |-> target, payload |-> payload, out |-> out]

\* ----------------------------------------------------------------- heap
\* Room objects no longer referenced by the Map or by a suspended handler
\* are garbage.
Collect(rs, ps, hp) ==
  [o \in Objs |->
     IF (\E r \in RoomIds : rs[r] = o) \/ (\E p \in ps : p.room = o)
     THEN hp[o] ELSE Free]

NewObj(hp) == CHOOSE o \in Objs : ~hp[o].alloc /\ \A q \in Objs : ~hp[q].alloc => o <= q

HasRoom(r) == rooms[r] # 0

\* A connection before it has joined anything.
Fresh == [status |-> "open", userId |-> None, roomId |-> None, sio |-> {}, left |-> FALSE]
\* A closed connection: Socket.IO has taken it out of all its rooms and no
\* handler reads its fields again, so the model forgets them.
Closed == [Fresh EXCEPT !.status = "closed"]

\* ----------------------------------------------------------------- Init
Init ==
  /\ rooms = [r \in RoomIds |-> 0]
  /\ heap = [o \in Objs |-> Free]
  /\ userSockets = [u \in UserIds |-> None]
  /\ sockets = [s \in SocketIds |-> [Fresh EXCEPT !.status = "new"]]
  /\ pending = {}
  /\ last = Done("init", None, None, {})

\* ------------------------------------------------------- POST /create-room
\* `rooms.set(roomId, {...})`.  uuidv4().split('-')[0] is 32 random bits: the
\* id may be one that is in the registry already.
\* create-room seeding the participant set with the creator:
\* `participants: new Set([userId])`.
CreateRoomJoined(u, r) ==
  LET hp0 == Collect([rooms EXCEPT ![r] = 0], pending, heap)
      o == NewObj(hp0)
  IN /\ rooms' = [rooms EXCEPT ![r] = o]
     /\ heap' = [hp0 EXCEPT ![o] = [creator |-> u, participants |-> {u},
                                   age |-> 0, alloc |-> TRUE]]
     /\ last' = Done("create-room", None, r, {})
     /\ UNCHANGED <<userSockets, sockets, pending>>

CreateRoom(u, r) ==
  LET hp0 == Collect([rooms EXCEPT ![r] = 0], pending, heap)
      o == NewObj(hp0)
  IN /\ rooms' = [rooms EXCEPT ![r] = o]
     /\ heap' = [hp0 EXCEPT ![o] = [creator |-> u, participants |-> {},
                                   age |-> 0, alloc |-> TRUE]]
     /\ last' = Done("create-room", None, r, {})
     /\ UNCHANGED <<userSockets, sockets, pending>>

\* ------------------------------------------------------- io.on('connection')
\* Socket.IO names each new connection; the model hands the names out in order.
Connect(s) ==
  /\ sockets[s].status = "new"
  /\ \A t \in SocketIds : SocketRank[t] < SocketRank[s] => sockets[t].status # "new"
  /\ sockets' = [sockets EXCEPT ![s].status = "open"]
  /\ last' = Done("connection", s, None, {})
  /\ UNCHANGED <<rooms, heap, userSockets, pending>>

\* ------------------------------------------------------- socket.on('join-room')
\* The capacity check off by one: `room.participants.size > 4`.
RoomFullOff(room) == Cardinality(room.participants) > MaxParticipants

\* `room.participants.size >= 4`
RoomFull(room) == Cardinality(room.participants) >= MaxParticipants

\* The error broadcast with io.emit instead of socket.emit.
RoomErrorAll(s, message) ==
  {Msg(t, "room-error", None, None, 0, {}, FALSE, message)
     : t \in {x \in DOMAIN sockets : sockets[x].status = "open"}}

\* `socket.emit('room-error', { message })`
RoomError(s, message) ==
  {Msg(t, "room-error", None, None, 0, {}, FALSE, message) : t \in SocketEmit(sockets, s)}

\* `await socket.join(roomId)`: the socket is in the Socket.IO room at once.
SioJoin(sk, s, r) == [sk EXCEPT ![s].sio = @ \cup {r}]

\* `room.participants.add(userId)`
AddParticipant(room, u) == [room EXCEPT !.participants = @ \cup {u}]

\* user-joined sent with io.to(roomId) instead of socket.to(roomId).
JoinedAudienceAll(sk, s, r) == IoToRoom(sk, r)

\* `socket.to(roomId).emit('user-joined', ...)`
JoinedAudience(sk, s, r) == SocketTo(sk, s, r)

\* participantsCount of user-joined: `room.participants.size`, read after the add
JoinedCount(room) == Cardinality(room.participants)

\* isCreator of room-joined: `room.creator === userId`
IsCreator(room, u) == room.creator = u

\* A bind that keeps an existing entry:
\* `if (!userSockets.has(userId)) userSockets.set(userId, socket.id)`.
BindIfAbsent(us, u, s) == IF us[u] = None THEN [us EXCEPT ![u] = s] ELSE us

\* `userSockets.set(userId, socket.id)`
Bind(us, u, s) == [us EXCEPT ![u] = s]

\* Lines 72-102, the handler after the await, on the handler's `room` p.room.
Admit(sk, hp, us, p) ==
  LET s == p.sock
      r == p.roomId
      u == p.userId
      room == AddParticipant(hp[p.room], u)
  IN [sockets |-> IF sk[s].status = "open"
                  THEN [sk EXCEPT ![s].userId = u, ![s].roomId = r, ![s].left = FALSE]
                  ELSE sk,
      userSockets |-> Bind(us, u, s),
      heap |-> [hp EXCEPT ![p.room] = room],
      out |-> {Msg(t, "room-joined", r, None, 0, room.participants, IsCreator(room, u), None)
                 : t \in SocketEmit(sk, s)}
              \cup
              {Msg(t, "user-joined", None, u, JoinedCount(room), {}, FALSE, None)
                 : t \in JoinedAudience(sk, s, r)}]

\* Lines 53-70: the checks, then socket.join(roomId) and the suspension at the
\* await.  The handler keeps its reference `room` across the await.
JoinRoom(s, r, u) ==
  /\ Open(s)
  /\ IF ~HasRoom(r)
     THEN /\ last' = Done("join-room", s, r, RoomError(s, "Salle introuvable"))
          /\ UNCHANGED <<rooms, heap, userSockets, sockets, pending>>
     ELSE IF RoomFull(heap[rooms[r]])
     THEN /\ last' = Done("join-room", s, r, RoomError(s, "Salle pleine"))
          /\ UNCHANGED <<rooms, heap, userSockets, sockets, pending>>
     ELSE LET p == [sock |-> s, roomId |-> r, userId |-> u, room |-> rooms[r]]
          IN /\ Cardinality(pending) < MaxPending
             /\ p \notin pending
             /\ sockets' = SioJoin(sockets, s, r)
             /\ pending' = pending \cup {p}
             /\ last' = Done("join-room", s, r, {})
             /\ UNCHANGED <<rooms, heap, userSockets>>

\* Lines 72-105: the continuation of a suspended handler.
JoinResume(p) ==
  LET n == Admit(sockets, heap, userSockets, p)
      ps == pending \ {p}
  IN /\ p \in pending
     /\ sockets' = n.sockets
     /\ userSockets' = n.userSockets
     /\ pending' = ps
     /\ heap' = Collect(rooms, ps, n.heap)
     /\ last' = Done("join-resume", p.sock, p.roomId, n.out)
     /\ UNCHANGED rooms

\* Lines 53-105 with nothing running at the await: a join that passes the
\* checks and is admitted in the same step.
JoinRoomNow(s, r, u) ==
  /\ Open(s)
  /\ HasRoom(r)
  /\ ~RoomFull(heap[rooms[r]])
  /\ LET p == [sock |-> s, roomId |-> r, userId |-> u, room |-> rooms[r]]
         n == Admit(SioJoin(sockets, s, r), heap, userSockets, p)
     IN /\ sockets' = n.sockets
        /\ userSockets' = n.userSockets
        /\ heap' = n.heap
        /\ last' = Done("join-now", s, r, n.out)
        /\ UNCHANGED <<rooms, pending>>

\* ------------------------------------------------------- socket.on('leave-room')
\* leave-room without its `rooms.delete(socket.roomId)`.
LeaveCleanupKeep(s) ==
  LET r == sockets[s].roomId
      u == sockets[s].userId
      o == rooms[r]
  IN IF o = 0
     THEN [rooms |-> rooms, heap |-> heap, userSockets |-> userSockets]
     ELSE [rooms |-> rooms,
           heap |-> [heap EXCEPT ![o].participants = @ \ {u}],
           userSockets |-> [userSockets EXCEPT ![u] = None]]

\* Lines 169-173 and 181-185: what leave-room does to the registry and the
\* bindings, for a socket whose roomId is set.
LeaveCleanup(s) ==
  LET r == sockets[s].roomId
      u == sockets[s].userId
      o == rooms[r]
  IN IF o = 0
     THEN [rooms |-> rooms, heap |-> heap, userSockets |-> userSockets]
     ELSE LET room == [heap[o] EXCEPT !.participants = @ \ {u}]
              rs == IF Cardinality(room.participants) = 0
                    THEN [rooms EXCEPT ![r] = 0] ELSE rooms
          IN [rooms |-> rs,
              heap |-> Collect(rs, pending, [heap EXCEPT ![o] = room]),
              userSockets |-> [x \in DOMAIN userSockets |->
                                 IF x = u THEN None ELSE userSockets[x]]]

\* `socket.to(socket.roomId).emit('user-left', ...)`, inside `if (room)`
LeftOut(s) ==
  LET r == sockets[s].roomId
      u == sockets[s].userId
      o == rooms[r]
  IN IF o = 0 THEN {}
     ELSE {Msg(t, "user-left", None, u, Cardinality(heap[o].participants \ {u}),
               {}, FALSE, None)
             : t \in SocketTo(sockets, s, r)}

\* leave-room without its `delete socket.roomId`.
LeaveSocketKeep(sk) == [sk EXCEPT !.sio = @ \ {sk.roomId}, !.left = TRUE]

\* `socket.leave(socket.roomId); delete socket.roomId`
LeaveSocket(sk) == [sk EXCEPT !.sio = @ \ {sk.roomId}, !.roomId = None, !.left = TRUE]

LeaveRoom(s) ==
  /\ Open(s)
  /\ IF sockets[s].roomId = None
     THEN /\ last' = Done("leave-room", s, None, {})
          /\ UNCHANGED <<rooms, heap, userSockets, sockets, pending>>
     ELSE LET c == LeaveCleanup(s)
          IN /\ rooms' = c.rooms
             /\ heap' = c.heap
             /\ userSockets' = c.userSockets
             /\ sockets' = [sockets EXCEPT ![s] = LeaveSocket(@)]
             /\ last' = Done("leave-room", s, sockets[s].roomId, LeftOut(s))
             /\ UNCHANGED pending

\* ------------------------------------------------------- socket.on('disconnect')
\* disconnect without its `userSockets.delete(socket.userId)`.
DisconnectCleanupBound(s) ==
  LET r == sockets[s].roomId
      u == sockets[s].userId
      o == rooms[r]
  IN IF o # 0
     THEN LET room == [heap[o] EXCEPT !.participants = @ \ {u}]
              rs == IF room.participants = {} THEN [rooms EXCEPT ![r] = 0] ELSE rooms
          IN [rooms |-> rs,
              heap |-> Collect(rs, pending, [heap EXCEPT ![o] = room]),
              userSockets |-> userSockets]
     ELSE [rooms |-> rooms, heap |-> heap, userSockets |-> userSockets]

\* disconnect without its `rooms.delete(socket.roomId)`.
DisconnectCleanupKeep(s) ==
  LET r == sockets[s].roomId
      u == sockets[s].userId
      o == rooms[r]
  IN IF o # 0
     THEN [rooms |-> rooms,
           heap |-> [heap EXCEPT ![o].participants = @ \ {u}],
           userSockets |-> [userSockets EXCEPT ![u] = None]]
     ELSE [rooms |-> rooms, heap |-> heap, userSockets |-> userSockets]

\* Lines 203-208 and 216-220: what the disconnect handler does to the
\* registry and the bindings, for a socket whose roomId is set.
DisconnectCleanup(s) ==
  LET r == sockets[s].roomId
      u == sockets[s].userId
      o == rooms[r]
  IN IF o # 0
     THEN LET room == [heap[o] EXCEPT !.participants = @ \ {u}]
              us == [userSockets EXCEPT ![u] = None]
              rs == IF room.participants = {} THEN [rooms EXCEPT ![r] = 0] ELSE rooms
          IN [rooms |-> rs,
              heap |-> Collect(rs, pending, [heap EXCEPT ![o] = room]),
              userSockets |-> us]
     ELSE [rooms |-> rooms, heap |-> heap, userSockets |-> userSockets]

\* `io.to(socket.roomId).emit('user-disconnected', ...)`, inside `if (room)`:
\* Socket.IO has taken the socket out of all its rooms before the disconnect
\* event fires.
DisconnectedOut(s) ==
  LET r == sockets[s].roomId
      u == sockets[s].userId
  IN IF rooms[r] = 0 THEN {}
     ELSE {Msg(t, "user-disconnected", None, u, 0, {}, FALSE, "disconnected")
             : t \in IoToRoom([sockets EXCEPT ![s] = Closed], r)}

Disconnect(s) ==
  /\ Open(s)
  /\ sockets' = [sockets EXCEPT ![s] = Closed]
  /\ IF sockets[s].roomId = None
     THEN /\ last' = Done("disconnect", s, None, {})
          /\ UNCHANGED <<rooms, heap, userSockets, pending>>
     ELSE LET c == DisconnectCleanup(s)
          IN /\ rooms' = c.rooms
             /\ heap' = c.heap
             /\ userSockets' = c.userSockets
             /\ last' = Done("disconnect", s, sockets[s].roomId, DisconnectedOut(s))
             /\ UNCHANGED pending

\* ------------------------------------------------------- setInterval reaper
\* The reaper's test without `&& room.participants.size === 0`.
StaleByAge(room) == room.age > Retention

\* `room.createdAt < hourAgo && room.participants.size === 0`, with
\* hourAgo = now - 60 * 60 * 1000
Stale(room) == room.age > Retention /\ Cardinality(room.participants) = 0

\* `if (deleted > 0) console.log(...)`: a message to no connection.
ReaperLog(deleted) ==
  IF deleted > 0
  THEN {Msg(None, "log", None, None, deleted, {}, FALSE, "salles inactives nettoyees")}
  ELSE {}

Reaper ==
  LET rs == [r \in RoomIds |->
               IF rooms[r] # 0 /\ Stale(heap[rooms[r]]) THEN 0 ELSE rooms[r]]
      deleted == Cardinality({r \in RoomIds : rooms[r] # 0 /\ rs[r] = 0})
  IN /\ rooms' = rs
     /\ heap' = Collect(rs, pending, heap)
     /\ last' = Done("reaper", None, None, ReaperLog(deleted))
     /\ UNCHANGED <<userSockets, sockets, pending>>

\* Time passes: every room grows older.
Tick ==
  /\ \E o \in Objs : heap[o].alloc /\ heap[o].age <= Retention
  /\ heap' = [o \in Objs |->
                IF heap[o].alloc /\ heap[o].age <= Retention
                THEN [heap[o] EXCEPT !.age = @ + 1] ELSE heap[o]]
  /\ last' = Done("tick", None, None, {})
  /\ UNCHANGED <<rooms, userSockets, sockets, pending>>

\* ------------------------------------------- offer / answer / ice-candidate
\* The relay emitting with io.emit instead of io.to(targetSocketId).
RelayOutAll(ev, s, target, payload) ==
  IF userSockets[target] # None
  THEN {Msg(t, ev, None, sockets[s].userId, 0, {}, FALSE, payload)
          : t \in {x \in DOMAIN sockets : sockets[x].status = "open"}}
  ELSE {}

\* `userSockets.get(targetUserId)`, then `io.to(targetSocketId).emit(...)`
\* with senderId: socket.userId and the payload as received.
RelayOut(ev, s, target, payload) ==
  LET targetSocketId == userSockets[target]
  IN IF targetSocketId # None
     THEN {Msg(t, ev, None, sockets[s].userId, 0, {}, FALSE, payload)
             : t \in IoToSocket(sockets, targetSocketId)}
     ELSE {}

Offer(s, target, sdp) ==
  /\ Open(s)
  /\ last' = Relayed("offer", s, target, sdp, RelayOut("offer", s, target, sdp))
  /\ UNCHANGED <<rooms, heap, userSockets, sockets, pending>>

Answer(s, target, sdp) ==
  /\ Open(s)
  /\ last' = Relayed("answer", s, target, sdp, RelayOut("answer", s, target, sdp))
  /\ UNCHANGED <<rooms, heap, userSockets, sockets, pending>>

IceCandidate(s, target, candidate) ==
  /\ Open(s)
  /\ last' = Relayed("ice-candidate", s, target, candidate,
                      RelayOut("ice-candidate", s, target, candidate))
  /\ UNCHANGED <<rooms, heap, userSockets, sockets, pending>>

\* ------------------------------------------------------- socket.on('user-status')
\* user-status emitted with io.to(socket.roomId): the sender included.
UserStatusOutAll(s, isMuted, isVideoOn) ==
  {Msg(t, "user-status-changed", None, sockets[s].userId, 0, {}, isMuted, isVideoOn)
     : t \in IoToRoom(sockets, sockets[s].roomId)}

\* `socket.to(socket.roomId).emit('user-status-changed', {userId, isMuted,
\* isVideoOn, timestamp})`; socket.roomId is undefined before a join and
\* after a leave-room.
UserStatusOut(s, isMuted, isVideoOn) ==
  {Msg(t, "user-status-changed", None, sockets[s].userId, 0, {}, isMuted, isVideoOn)
     : t \in SocketTo(sockets, s, sockets[s].roomId)}

UserStatus(s, isMuted, isVideoOn) ==
  /\ Open(s)
  /\ last' = Done("user-status", s, None, UserStatusOut(s, isMuted, isVideoOn))
  /\ UNCHANGED <<rooms, heap, userSockets, sockets, pending>>

\* ------------------------------------------------------- socket.on('ping')
\* A ping that refreshes the sender's binding:
\* `userSockets.set(socket.userId, socket.id)`.
PingRebind(s) ==
  /\ Open(s)
  /\ last' = Done("ping", s, None,
                  {Msg(t, "pong", None, None, 0, {}, FALSE, None) : t \in SocketEmit(sockets, s)})
  /\ userSockets' = IF sockets[s].userId = None THEN userSockets
                    ELSE [userSockets EXCEPT ![sockets[s].userId] = s]
  /\ UNCHANGED <<rooms, heap, sockets, pending>>

\* `socket.emit('pong', { timestamp })`
Ping(s) ==
  /\ Open(s)
  /\ last' = Done("ping", s, None,
                  {Msg(t, "pong", None, None, 0, {}, FALSE, None) : t \in SocketEmit(sockets, s)})
  /\ UNCHANGED <<rooms, heap, userSockets, sockets, pending>>

\* ------------------------------------------------------------ specifications
\* The connection lifecycle in one room.
Next ==
  \/ \E r \in LifeRooms : CreateRoom("u1", r)
  \/ \E s \in LifeSockets : Connect(s)
  \/ \E s \in LifeSockets, r \in LifeRooms, u \in LifeUsers : JoinRoom(s, r, u)
  \/ \E p \in pending : JoinResume(p)
  \/ \E s \in LifeSockets, r \in LifeRooms, u \in LifeUsers : JoinRoomNow(s, r, u)
  \/ \E s \in LifeSockets : LeaveRoom(s)
  \/ \E s \in LifeSockets : Disconnect(s)

Spec == Init /\ [][Next]_vars

\* Room capacity.
NextCap ==
  \/ \E r \in CapRooms : CreateRoom("u1", r)
  \/ \E s \in CapSockets : Connect(s)
  \/ \E j \in CapJoins, r \in CapRooms : JoinRoom(j[1], r, j[2])
  \/ \E p \in pending : JoinResume(p)
  \/ \E j \in CapJoins, r \in CapRooms : JoinRoomNow(j[1], r, j[2])
  \/ \E s \in CapSockets : Disconnect(s)

SpecCap == Init /\ [][NextCap]_vars

\* The reaper.
NextReaper ==
  \/ \E r \in ReaperRooms : CreateRoom("u1", r)
  \/ \E s \in ReaperSockets : Connect(s)
  \/ \E s \in ReaperSockets, r \in ReaperRooms, u \in ReaperUsers : JoinRoom(s, r, u)
  \/ \E p \in pending : JoinResume(p)
  \/ \E s \in ReaperSockets, r \in ReaperRooms, u \in ReaperUsers : JoinRoomNow(s, r, u)
  \/ \E s \in ReaperSockets : LeaveRoom(s)
  \/ \E s \in ReaperSockets : Disconnect(s)
  \/ Reaper
  \/ Tick

SpecReaper == Init /\ [][NextReaper]_vars

\* Connections sharing a userId.
NextShared ==
  \/ \E r \in SharedRooms : CreateRoom("u1", r)
  \/ \E s \in SharedSockets : Connect(s)
  \/ \E s \in SharedSockets, r \in SharedRooms, u \in SharedUsers : JoinRoomNow(s, r, u)
  \/ \E s \in SharedSockets : LeaveRoom(s)
  \/ \E s \in SharedSockets : Disconnect(s)

SpecShared == Init /\ [][NextShared]_vars

\* The relay.
NextRelay ==
  \/ \E r \in RelayRooms : CreateRoom("u1", r)
  \/ \E s \in RelaySockets : Connect(s)
  \/ \E s \in RelaySockets, r \in RelayRooms, u \in RelayUsers : JoinRoomNow(s, r, u)
  \/ \E s \in RelaySockets : LeaveRoom(s)
  \/ \E s \in RelaySockets : Disconnect(s)
  \/ \E s \in RelaySockets, t \in RelayUsers, p \in Payloads : Offer(s, t, p)
  \/ \E s \in RelaySockets, t \in RelayUsers, p \in Payloads : Answer(s, t, p)
  \/ \E s \in RelaySockets, t \in RelayUsers, p \in Payloads : IceCandidate(s, t, p)

SpecRelay == Init /\ [][NextRelay]_vars

\* Every kind of message, two rooms.
NextSignal ==
  \/ \E r \in SignalRooms : CreateRoom("u1", r)
  \/ \E s \in SignalSockets : Connect(s)
  \/ \E s \in SignalSockets, r \in SignalRooms, u \in SignalUsers : JoinRoomNow(s, r, u)
  \/ \E s \in SignalSockets : LeaveRoom(s)
  \/ \E s \in SignalSockets : Disconnect(s)
  \/ \E s \in SignalSockets, t \in SignalUsers, p \in SignalPayloads : Offer(s, t, p)
  \/ \E s \in SignalSockets, t \in SignalUsers, p \in SignalPayloads : Answer(s, t, p)
  \/ \E s \in SignalSockets, t \in SignalUsers, p \in SignalPayloads : IceCandidate(s, t, p)
  \/ \E s \in SignalSockets, m \in BOOLEAN, v \in VideoFlags : UserStatus(s, m, v)
  \/ \E s \in SignalSockets : Ping(s)

SpecSignal == Init /\ [][NextSignal]_vars

\* ------------------------------------------------------------------ claims
\* A join-room request: the handler up to its await, or run in one piece.
JoinRequests == {"join-room", "join-now"}
\* An admission: the end of a join-room handler.
Admissions == {"join-resume", "join-now"}

\* C1: every room in the registry has at most 4 participants, in every
\* reachable state, join-room handlers being suspended at their await while
\* other handlers run.
C1_AtMostFour ==
  \A r \in RoomIds :
    rooms[r] # 0 => Cardinality(heap[rooms[r]].participants) <= MaxParticipants

\* C2: a join-room request against a room that has 4 participants (or more)
\* delivers room-error 'Salle pleine' to the requesting connection and
\* nothing else to anyone, and changes neither the registry, nor a participant
\* set, nor the bindings, nor any socket's fields, nor starts an admission.
C2_FullRoomRejected ==
  [][\A s \in SocketIds, r \in RoomIds :
       ( /\ last'.op \in JoinRequests
         /\ last'.sock = s
         /\ last'.roomId = r
         /\ rooms[r] # 0
         /\ Cardinality(heap[rooms[r]].participants) >= MaxParticipants )
       => /\ last'.out = {Msg(s, "room-error", None, None, 0, {}, FALSE, "Salle pleine")}
          /\ UNCHANGED <<rooms, heap, userSockets, sockets, pending>>]_vars

\* C2's case: a request was refused with 'Salle pleine' while another
\* connection was in the room.
C2_Witness ==
  /\ last.op = "join-room"
  /\ \E m \in last.out : m.payload = "Salle pleine" /\ m.to = last.sock
  /\ \E t \in SocketIds : t # last.sock /\ Open(t) /\ last.roomId \in sockets[t].sio

\* C3: a join-room request naming a room that is not in the registry delivers
\* room-error 'Salle introuvable' to the requesting connection and nothing
\* to anyone else, and has no side effect.
C3_UnknownRoomRejected ==
  [][\A s \in SocketIds, r \in RoomIds :
       ( /\ last'.op \in JoinRequests
         /\ last'.sock = s
         /\ last'.roomId = r
         /\ rooms[r] = 0 )
       => /\ last'.out = {Msg(s, "room-error", None, None, 0, {}, FALSE, "Salle introuvable")}
          /\ UNCHANGED <<rooms, heap, userSockets, sockets, pending>>]_vars

\* C3's case: a request was refused with 'Salle introuvable' while another
\* connection was open and bound.
C3_Witness ==
  /\ last.op = "join-room"
  /\ \E m \in last.out : m.payload = "Salle introuvable" /\ m.to = last.sock
  /\ \E t \in SocketIds : t # last.sock /\ Open(t) /\ sockets[t].userId # None

\* C4: a leave-room or disconnect handler that empties a room's participant
\* set also removes the room from the registry: no room that had participants
\* before the handler is still in the registry, empty, after it.
C4_EmptiedRoomRemoved ==
  [][last'.op \in {"leave-room", "disconnect"}
       => \A r \in RoomIds :
            ( /\ rooms[r] # 0
              /\ heap[rooms[r]].participants # {}
              /\ rooms'[r] = rooms[r] )
            => heap'[rooms[r]].participants # {}]_vars

\* C4's case: a leave-room took the last participant out (the others in the
\* Socket.IO room were told participantsCount 0) and the room is gone.
C4_Witness ==
  /\ last.op = "leave-room"
  /\ \E m \in last.out : m.ev = "user-left" /\ m.count = 0
  /\ rooms[last.roomId] = 0

\* C5: an offer, answer or ice-candidate for target T is delivered, with the
\* payload as sent and senderId the sender's userId, to the connection that
\* userSockets binds T to and to no other; when T has no entry, or the entry
\* names a connection that is closed, nothing is delivered to anyone.
C5_RelayToBoundOnly ==
  [][last'.op \in RelayEvents
       => LET c == userSockets[last'.target]
          IN IF c # None /\ Open(c)
             THEN last'.out = {Msg(c, last'.op, None, sockets[last'.sock].userId,
                                   0, {}, FALSE, last'.payload)}
             ELSE last'.out = {}]_vars

\* C5's case: an offer from a bound connection reached another connection,
\* its target.
C5_Witness ==
  /\ last.op = "offer"
  /\ \E m \in last.out : m.to # last.sock /\ m.payload = "sdpB" /\ m.userId # None
  /\ \E u \in UserIds : userSockets[u] = last.sock

\* C6: a leave-room on a connection that has left and has not joined again
\* delivers nothing and changes neither the registry nor the bindings.
C6_LeaveIdempotent ==
  [][\A s \in SocketIds :
       (last'.op = "leave-room" /\ last'.sock = s /\ sockets[s].left)
       => /\ last'.out = {}
          /\ UNCHANGED <<rooms, heap, userSockets>>]_vars

\* C6's case: a second leave-room ran on a connection that had left a room
\* in which another connection remains.
C6_Witness ==
  /\ last.op = "leave-room"
  /\ last.roomId = None
  /\ sockets[last.sock].left
  /\ \E t \in SocketIds, r \in RoomIds :
       t # last.sock /\ Open(t) /\ sockets[t].roomId = r /\ rooms[r] # 0

\* C7: a reaper tick removes a room from the registry only if the room had
\* no participant and was older than the retention window, and it changes no
\* room it leaves in the registry.
C7_ReaperOnlyEmptyStale ==
  [][last'.op = "reaper"
       => \A r \in RoomIds :
            /\ (rooms[r] # 0 /\ rooms'[r] = 0)
                 => /\ heap[rooms[r]].participants = {}
                    /\ heap[rooms[r]].age > Retention
            /\ rooms'[r] # 0 => (rooms'[r] = rooms[r] /\ heap'[rooms[r]] = heap[rooms[r]])]_vars

\* C7's case: a tick removed a room and left in the registry a room older
\* than the retention window, because that one has a participant.
C7_Witness ==
  /\ last.op = "reaper"
  /\ \E m \in last.out : m.ev = "log" /\ m.count = 1
  /\ \E r \in RoomIds :
       rooms[r] # 0 /\ heap[rooms[r]].participants # {} /\ heap[rooms[r]].age > Retention

C9_DepartureNotified ==
  [][\A s \in SocketIds :
       ( /\ last'.op \in {"leave-room", "disconnect"}
         /\ last'.sock = s
         /\ sockets[s].roomId # None )
       => LET r == sockets[s].roomId
              u == sockets[s].userId
              n == IF rooms[r] = 0 THEN 0
                   ELSE Cardinality(heap[rooms[r]].participants \ {u})
          IN \A t \in SocketIds :
               {m \in last'.out : m.to = t}
                 = IF t # s /\ Open(t) /\ r \in sockets[t].sio
                   THEN IF last'.op = "leave-room"
                        THEN {Msg(t, "user-left", None, u, n, {}, FALSE, None)}
                        ELSE {Msg(t, "user-disconnected", None, u, 0, {}, FALSE, "disconnected")}
                   ELSE {}]_vars

\* C10: a disconnect of a connection that has joined leaves the registry, the
\* participant sets and the bindings as a leave-room of that connection
\* would have left them.
C10_DisconnectCleansAsLeave ==
  [][\A s \in SocketIds :
       (last'.op = "disconnect" /\ last'.sock = s /\ sockets[s].roomId # None)
       => /\ rooms' = LeaveCleanup(s).rooms
          /\ heap' = LeaveCleanup(s).heap
          /\ userSockets' = LeaveCleanup(s).userSockets]_vars

\* C10's case: a joined connection disconnected from a room in which another
\* connection remains, and its binding is gone.
C10_Witness ==
  /\ last.op = "disconnect"
  /\ \E m \in last.out : m.ev = "user-disconnected" /\ userSockets[m.userId] = None
  /\ rooms[last.roomId] # 0

\* A userId is Joined to a room when the room is in the registry and the
\* userId is in its participant set.
Joined(r, u) == rooms[r] # 0 /\ u \in heap[rooms[r]].participants

\* The userId a join-room handler admits in the step it ends.
Admitted ==
  IF last'.op = "join-now" THEN sockets'[last'.sock].userId
  ELSE (CHOOSE p \in pending \ pending' : TRUE).userId

\* C11 (as claimed): Left is terminal.  When leave-room has just taken a
\* connection's userId out of a room and the room is still in the registry,
\* no event makes that userId a participant of that room again.
C11_LeftIsTerminal ==
  [][\A s \in SocketIds, r \in RoomIds :
       ( /\ last.op = "leave-room"
         /\ last.sock = s
         /\ last.roomId = r
         /\ rooms[r] # 0
         /\ rooms'[r] = rooms[r] )
       => sockets[s].userId \notin heap'[rooms[r]].participants]_vars

\* C11 (amended): a userId becomes a participant of a room in the registry
\* only in the step that ends a join-room handler for that room and that
\* userId; no other event makes a (room, client) pair Joined.
C11_JoinedOnlyByAdmission ==
  [][\A r \in RoomIds, u \in UserIds :
       ( /\ rooms'[r] # 0
         /\ u \in heap'[rooms'[r]].participants
         /\ ~Joined(r, u) )
       => /\ last'.op \in Admissions
          /\ last'.roomId = r
          /\ Admitted = u]_vars

\* C11's case: an admission made a userId a participant of a room in which
\* another participant already was, and the userId is bound to the joiner.
C11_Witness ==
  /\ last.op = "join-now"
  /\ rooms[last.roomId] # 0
  /\ Cardinality(heap[rooms[last.roomId]].participants) = 2
  /\ \E u \in UserIds : Joined(last.roomId, u) /\ userSockets[u] = last.sock
                        /\ sockets[last.sock].userId = u

\* C12: userSockets is a Map, so a userId resolves to at most one connection;
\* when a join-room handler admits userId U on connection C, userSockets
\* resolves U to C afterwards whatever U was bound to before, and a connection
\* D that U was bound to gets nothing for being superseded: nothing at all
\* unless it is in the joined room, where it gets the user-joined that every
\* other connection of the room gets.
C12_LaterBindSupersedes ==
  [][\A s \in SocketIds, r \in RoomIds :
       (last'.op \in Admissions /\ last'.sock = s /\ last'.roomId = r)
       => LET u == Admitted
              d == userSockets[u]
          IN /\ userSockets'[u] = s
             /\ \A v \in UserIds \ {u} : userSockets'[v] = userSockets[v]
             /\ (d # None /\ d # s)
                  => \A m \in last'.out :
                       m.to = d => (m.ev = "user-joined" /\ r \in sockets[d].sio)]_vars

\* C12's case: U was admitted on a connection while another open connection,
\* joined under U to another room, is outside the joined room; the binding
\* is the joiner's and the other connection got no message.
C12_Witness ==
  /\ last.op = "join-now"
  /\ \E d \in SocketIds :
       /\ d # last.sock
       /\ Open(d)
       /\ sockets[d].userId = sockets[last.sock].userId
       /\ sockets[d].roomId \notin {None, last.roomId}
       /\ last.roomId \notin sockets[d].sio
       /\ userSockets[sockets[d].userId] = last.sock
       /\ \A m \in last.out : m.to # d

\* The handlers that only pass messages on.
MessageEvents == RelayEvents \cup {"user-status", "ping"}
\* The handlers (and the HTTP endpoint and the timer) that the spec lets
\* change the registry.
RegistryEvents == {"create-room", "join-resume", "join-now", "leave-room", "disconnect", "reaper"}

\* C13: an offer, answer, ice-candidate, user-status or ping handler leaves the
\* registry, every participant set and the bindings as they were; a step that
\* changes the registry or a participant set is a room creation, an admission
\* of a join-room, a leave-room, a disconnect or a reaper tick.
C13_MessagesLeaveRegistryAlone ==
  [][/\ last'.op \in MessageEvents => UNCHANGED <<rooms, heap, userSockets, sockets, pending>>
     /\ ( \/ rooms' # rooms
          \/ \E o \in Objs : heap'[o].participants # heap[o].participants )
        => last'.op \in RegistryEvents]_vars

\* C13's case: a user-status from a bound participant of a room in the
\* registry was delivered to another connection.
C13_Witness ==
  /\ last.op = "user-status"
  /\ \E m \in last.out : m.to # last.sock
  /\ Joined(sockets[last.sock].roomId, sockets[last.sock].userId)
  /\ userSockets[sockets[last.sock].userId] # None

AdmittedRoom ==
  IF last'.op = "join-now" THEN rooms[last'.roomId]
  ELSE (CHOOSE p \in pending \ pending' : TRUE).room

\* C15: whenever a join-room handler succeeds (room-joined is emitted and the
\* user is bound), the room it validated is in the registry at that moment
\* under the id it was asked for, and the participant set of the registry's
\* room contains the joiner.
C15_AdmissionAtomic ==
  [][\A s \in SocketIds, r \in RoomIds :
       ( /\ last'.op \in Admissions
         /\ last'.sock = s
         /\ last'.roomId = r
         /\ \E m \in last'.out : m.ev = "room-joined" /\ m.to = s
         /\ userSockets'[Admitted] = s )
       => /\ rooms'[r] # 0
          /\ rooms'[r] = AdmittedRoom
          /\ Admitted \in heap'[rooms'[r]].participants]_vars

\* C16: create-room allocates an id that is not in the registry at that
\* moment, so it never replaces an existing room, and the room it creates
\* starts with an empty participant set.
C16_CreateRoomFreshId ==
  [][\A r \in RoomIds :
       (last'.op = "create-room" /\ last'.roomId = r)
       => /\ rooms[r] = 0
          /\ rooms'[r] # 0
          /\ heap'[rooms'[r]].participants = {}
          /\ \A q \in RoomIds \ {r} : rooms'[q] = rooms[q]]_vars

\* C17: every userId in the participant set of a room in the registry is the
\* userId of a connected socket whose roomId is that room.
C17_ParticipantsAreLive ==
  \A r \in RoomIds :
    rooms[r] # 0 =>
      \A u \in heap[rooms[r]].participants :
        \E s \in SocketIds :
          Open(s) /\ sockets[s].userId = u /\ sockets[s].roomId = r

\* C18: no binding outlives its connection: userSockets maps no userId to a
\* connection that has disconnected, nor to one that has completed leave-room
\* and has not joined again.
C18_NoBindingOutlivesConnection ==
  \A u \in UserIds :
    userSockets[u] # None =>
      /\ Open(userSockets[u])
      /\ ~sockets[userSockets[u]].left

\* C19: a leave-room or disconnect on connection C removes only C's own
\* binding.  When userId U is bound to another connection D that is open,
\* joined under U and has not left, and U is a participant of D's room, then
\* after C leaves or disconnects U is still bound to D and still a
\* participant of D's room.
C19_OthersBindingKept ==
  [][\A s \in SocketIds, d \in SocketIds, u \in UserIds :
       ( /\ last'.op \in {"leave-room", "disconnect"}
         /\ last'.sock = s
         /\ d # s
         /\ userSockets[u] = d
         /\ Open(d)
         /\ sockets[d].userId = u
         /\ sockets[d].roomId # None
         /\ Joined(sockets[d].roomId, u) )
       => /\ userSockets'[u] = d
          /\ rooms'[sockets[d].roomId] # 0
          /\ u \in heap'[rooms'[sockets[d].roomId]].participants]_vars

\* C20: a room that is in the registry with an empty participant set has
\* admitted no participant since it was created.  Step by step: a room that
\* is in the registry and empty after a step was created by that step, or was
\* the same room, in the registry and empty, before it; so a room that has
\* had a participant is never in the registry empty, and the rooms the reaper
\* removes were never joined.
C20_EmptyRoomsNeverJoined ==
  [][\A r \in RoomIds :
       (rooms'[r] # 0 /\ heap'[rooms'[r]].participants = {})
       => \/ last'.op = "create-room" /\ last'.roomId = r
          \/ rooms'[r] = rooms[r] /\ heap[rooms[r]].participants = {}]_vars

\* C20's case: a connection's departure emptied its room, which is gone from
\* the registry, while a room that nobody joined is in the registry, empty
\* and older than the retention window.
C20_Witness ==
  /\ last.op \in {"leave-room", "disconnect"}
  /\ last.roomId # None
  /\ rooms[last.roomId] = 0
  /\ \E r \in RoomIds :
       rooms[r] # 0 /\ heap[rooms[r]].participants = {} /\ heap[rooms[r]].age > Retention

====
